---- MODULE Spec2Model ----
(***************************************************************************)
(* A model of src/ascii.py (image_to_color_text.py): the conversion of an  *)
(* image into a grid of glyphs, one per sampled pixel, optionally wrapped  *)
(* in <font color="#rrggbb"> markup.                                       *)
(*                                                                         *)
(* Strings are sequences of characters; a character is a one-element      *)
(* token ("a", "#", " ", "\n"; "u2588" stands for the block U+2588).       *)
(* Python floats are IEEE-754 binary64 values: a float is a record with a  *)
(* sign, an exponent and a 53-bit significand (most significant bit        *)
(* first), and every float operation of the source rounds to nearest,     *)
(* ties to even, as the interpreter does.                                  *)
(***************************************************************************)
EXTENDS Integers, Sequences, FiniteSets, TLC

VARIABLES
    \* ensure_hex_color called on its own: argument and outcome
    hex_in, hex_out,
    \* composite_over_bg called on its own: arguments and outcome
    comp_img, comp_bg, comp_out,
    \* main / image_to_color_text: the arguments
    image_path, scale_percent, aspect_ratio, glyph, rich_text, bg_arg,
    \* image_to_color_text: the position in the code and the locals
    pc, background, img, bg_hex, orig_w, orig_h, scale, new_w, new_h, color_img,
    rendered_h, lines, row_parts, y, x, raw_y, mapped_y, final_text,
    \* the world: the output file, the resize calls made, the raised
    \* exception, the error stream and the exit status of main
    file, resizes, exc, stderr, exit_status

hexVars  == <<hex_in, hex_out>>
compVars == <<comp_img, comp_bg, comp_out>>
argVars  == <<image_path, scale_percent, aspect_ratio, glyph, rich_text,
              bg_arg>>
locVars  == <<background, img, bg_hex, orig_w, orig_h, scale, new_w, new_h,
              color_img, rendered_h, lines, row_parts, y, x, raw_y, mapped_y,
              final_text>>
outVars  == <<file, resizes, exc, stderr, exit_status>>
runVars  == <<pc, argVars, locVars, outVars>>
vars     == <<hexVars, compVars, runVars>>

(***************************************************************************)
(* Bounds of the model.                                                    *)
(***************************************************************************)
\* longest argument given to ensure_hex_color on its own
MaxHexLen == 7
\* largest width and height of an input image in a full run
MaxDim == 2
\* largest width of an input image when only the scaler runs
MaxOrig == 25
\* largest scale percentage when only the scaler runs
MaxPercent == 116

(***************************************************************************)
(* Values.                                                                 *)
(***************************************************************************)
None == <<"<None>">>
NoValue == <<"<unset>">>

Max(a, b) == IF a >= b THEN a ELSE b
Min(a, b) == IF a <= b THEN a ELSE b

RECURSIVE Pow2(_)
Pow2(k) == IF k <= 0 THEN 1 ELSE 2 * Pow2(k - 1)

RECURSIVE Concat(_)
\* "".join(parts)
Concat(parts) ==
    IF parts = <<>> THEN <<>> ELSE Head(parts) \o Concat(Tail(parts))

RECURSIVE Join(_, _)
\* sep.join(parts)
Join(sep, parts) ==
    IF parts = <<>> THEN <<>>
    ELSE IF Len(parts) = 1 THEN parts[1]
    ELSE parts[1] \o sep \o Join(sep, Tail(parts))

(***************************************************************************)
(* str methods used by the source.                                         *)
(***************************************************************************)
Whitespace == {" ", "\t", "\n"}

RECURSIVE LStrip(_)
LStrip(s) ==
    IF s # <<>> /\ Head(s) \in Whitespace THEN LStrip(Tail(s)) ELSE s

RECURSIVE RStrip(_)
RStrip(s) ==
    IF s # <<>> /\ s[Len(s)] \in Whitespace
    THEN RStrip(SubSeq(s, 1, Len(s) - 1)) ELSE s

\* s.strip()
Strip(s) == RStrip(LStrip(s))

UpperLetters == <<"A", "B", "C", "D", "E", "F", "G", "H", "I", "J", "K", "L",
                  "M", "N", "O", "P", "Q", "R", "S", "T", "U", "V", "W", "X",
                  "Y", "Z">>
LowerLetters == <<"a", "b", "c", "d", "e", "f", "g", "h", "i", "j", "k", "l",
                  "m", "n", "o", "p", "q", "r", "s", "t", "u", "v", "w", "x",
                  "y", "z">>

LowerChar(c) ==
    IF \E i \in 1..26 : UpperLetters[i] = c
    THEN LowerLetters[CHOOSE i \in 1..26 : UpperLetters[i] = c]
    ELSE c

\* s.lower()
Lower(s) == [i \in 1..Len(s) |-> LowerChar(s[i])]

HexDigits == <<"0", "1", "2", "3", "4", "5", "6", "7", "8", "9",
               "a", "b", "c", "d", "e", "f">>

IsHexDigit(c) == \E i \in 1..16 : HexDigits[i] = LowerChar(c)

HexVal(c) == (CHOOSE i \in 1..16 : HexDigits[i] = LowerChar(c)) - 1

(***************************************************************************)
(* ensure_hex_color(s): the normalised colour, or the raised exception.    *)
(***************************************************************************)
ValueError == <<"<ValueError>">>

\* if s.startswith("#"): s = s[1:]
DropHash(s) == IF s # <<>> /\ Head(s) = "#" THEN Tail(s) ELSE s

\* a check that also lets four digits through
BadHexLen_Four(s) == Len(s) \notin {3, 4, 6}

\* if len(s) not in (3, 6): raise ValueError
BadHexLen(s) == Len(s) \notin {3, 6}

\* the whole string twice, not each character: 2*s
Double_Whole(s) == s \o s

RECURSIVE Double(_)
\* "".join(2*c for c in s)
Double(s) == IF s = <<>> THEN <<>> ELSE <<Head(s), Head(s)>> \o Double(Tail(s))

\* if len(s) == 3: s = "".join(2*c for c in s)
Expand(s) == IF Len(s) = 3 THEN Double(s) ELSE s

ensure_hex_color(s0) ==
    LET s == DropHash(Strip(s0))
    IN  IF BadHexLen(s) THEN ValueError
        ELSE <<"#">> \o Lower(Expand(s))

(***************************************************************************)
(* Floats.  A Python float is an IEEE-754 binary64 value.  A nonzero one   *)
(* is [sgn, exp, f1, f2, f3]: sgn * (1 + f1/2^18 + f2/2^36 + f3/2^52) *    *)
(* 2^exp, its 52 fraction bits held as two 18-bit limbs and one 16-bit     *)
(* limb, so that every step below stays inside 32-bit integers.  Every     *)
(* operation rounds to nearest, ties to even.  The integer operands are    *)
(* below 2^12 in magnitude.                                                *)
(***************************************************************************)
Limb == Pow2(18)
LowLimb == Pow2(16)

FZero(sg) == [zero |-> TRUE, sgn |-> sg, exp |-> 0, f1 |-> 0, f2 |-> 0, f3 |-> 0]
FNum(sg, e, a, b, c) ==
    [zero |-> FALSE, sgn |-> sg, exp |-> e, f1 |-> a, f2 |-> b, f3 |-> c]

Abs(n) == IF n < 0 THEN -n ELSE n
Sign(n) == IF n < 0 THEN -1 ELSE 1

RECURSIVE BitLen(_)
\* the number of bits of a natural number
BitLen(n) == IF n = 0 THEN 0 ELSE 1 + BitLen(n \div 2)

RECURSIVE Normalise(_, _, _)
\* <<n', d', e>> with n/d = (n'/d') * 2^e and d' <= n' < 2 d'
Normalise(n, d, e) ==
    IF n >= 2 * d THEN Normalise(n, 2 * d, e + 1)
    ELSE IF n < d THEN Normalise(2 * n, d, e - 1)
    ELSE <<n, d, e>>

\* the significand 1.f1 f2 f3 followed by a guard bit and by sticky (whether
\* anything nonzero lies below the guard bit), rounded to nearest, ties to
\* even
RoundNearestEven(sg, e, a, b, c, guard, sticky) ==
    IF ~(guard /\ (sticky \/ c % 2 = 1)) THEN FNum(sg, e, a, b, c)
    ELSE IF c + 1 < LowLimb THEN FNum(sg, e, a, b, c + 1)
    ELSE IF b + 1 < Limb THEN FNum(sg, e, a, b + 1, 0)
    ELSE IF a + 1 < Limb THEN FNum(sg, e, a + 1, 0, 0)
    ELSE FNum(sg, e + 1, 0, 0, 0)

\* float(n) / float(d) for integers n and d # 0: the long division of n by d,
\* 18 quotient bits at a time
FloatDiv(n, d) ==
    IF n = 0 THEN FZero(Sign(d))
    ELSE LET nd  == Normalise(Abs(n), Abs(d), 0)
             den == nd[2]
             r0  == nd[1] - den
             q1  == (r0 * Limb) \div den
             r1  == (r0 * Limb) % den
             q2  == (r1 * Limb) \div den
             r2  == (r1 * Limb) % den
             q3  == (r2 * Limb) \div den
             r3  == (r2 * Limb) % den
         IN  RoundNearestEven(Sign(n) * Sign(d), nd[3], q1, q2, q3 \div 4,
                              (q3 \div 2) % 2 = 1, q3 % 2 = 1 \/ r3 # 0)

\* float(w) * f for an integer w: the exact product limb by limb, then its
\* leading 53 bits
FloatMulInt(w, f) ==
    IF w = 0 \/ f.zero THEN FZero(Sign(w) * f.sgn)
    ELSE LET t3 == Abs(w) * f.f3
             t2 == Abs(w) * f.f2 + t3 \div LowLimb
             t1 == Abs(w) * f.f1 + t2 \div Limb
             t0 == Abs(w) + t1 \div Limb
             l3 == t3 % LowLimb
             l2 == t2 % Limb
             l1 == t1 % Limb
             s  == BitLen(t0) - 1
             p  == Pow2(s)
             dropped == l3 % p
         IN  RoundNearestEven(Sign(w) * f.sgn, f.exp + s,
                              (t0 % p) * (Limb \div p) + l1 \div p,
                              (l1 % p) * (Limb \div p) + l2 \div p,
                              (l2 % p) * (LowLimb \div p) + l3 \div p,
                              s >= 1 /\ dropped >= p \div 2,
                              s >= 1 /\ dropped % (p \div 2) # 0)

\* the models' floats have fewer than 18 integer bits
SmallExp(e) == CHOOSE k \in {e} : k < 18

\* int(f): truncation toward zero
FloatToInt(f) ==
    IF f.zero \/ f.exp < 0 THEN 0
    ELSE LET e == SmallExp(f.exp)
         IN  f.sgn * (Pow2(e) + f.f1 \div Pow2(18 - e))

\* round(f): the nearest integer, ties to the even one
FloatRound(f) ==
    IF f.zero \/ f.exp < -1 THEN 0
    ELSE IF f.exp = -1
         THEN f.sgn * (IF f.f1 # 0 \/ f.f2 # 0 \/ f.f3 # 0 THEN 1 ELSE 0)
    ELSE LET e    == SmallExp(f.exp)
             int  == Pow2(e) + f.f1 \div Pow2(18 - e)
             frac == f.f1 % Pow2(18 - e)
             half == Pow2(17 - e)
             up   == /\ frac >= half
                     /\ (frac > half \/ f.f2 # 0 \/ f.f3 # 0 \/ int % 2 = 1)
         IN  f.sgn * (IF up THEN int + 1 ELSE int)

(***************************************************************************)
(* Images.  An image is [mode, width, height, px, palette, transparency]:  *)
(* px maps <<x, y>> to the pixel, a tuple of channels (0..255) whose      *)
(* layout the mode gives; a "P" image holds palette indices, and           *)
(* transparency is its info["transparency"] index, or NoIndex.             *)
(***************************************************************************)
NoIndex == 0 - 1

Coords(w, h) == (0..(w - 1)) \X (0..(h - 1))

MkImage(m, w, h, p, pal, tr) ==
    [mode |-> m, width |-> w, height |-> h, px |-> p, palette |-> pal,
     transparency |-> tr]

\* one pixel converted to RGBA, as img.convert("RGBA") gives it
PixelRGBA(im, p) ==
    CASE im.mode = "RGBA" -> p
      [] im.mode = "RGB"  -> p \o <<255>>
      [] im.mode = "LA"   -> <<p[1], p[1], p[1], p[2]>>
      [] im.mode = "L"    -> <<p[1], p[1], p[1], 255>>
      [] im.mode = "P"    ->
            im.palette[p[1] + 1]
                \o <<IF im.transparency = p[1] THEN 0 ELSE 255>>

\* img.convert("RGBA")
ConvertRGBA(im) ==
    MkImage("RGBA", im.width, im.height,
            [c \in DOMAIN im.px |-> PixelRGBA(im, im.px[c])], <<>>, NoIndex)

\* img.convert("RGB"): the colour channels, any alpha dropped
ConvertRGB(im) ==
    MkImage("RGB", im.width, im.height,
            [c \in DOMAIN im.px |-> SubSeq(PixelRGBA(im, im.px[c]), 1, 3)],
            <<>>, NoIndex)

\* Image.new("RGBA", size, color)
NewRGBA(w, h, color) ==
    MkImage("RGBA", w, h, [c \in Coords(w, h) |-> color], <<>>, NoIndex)

\* ((a >> 8) + a) >> 8: the division by 255 of the compositing arithmetic
ShiftForDiv255(a) == ((a \div 256) + a) \div 256

\* one pixel of Image.alpha_composite: src over dst, 7 bits of precision
CompositePixel(dst, src) ==
    IF src[4] = 0 THEN dst
    ELSE LET blend   == dst[4] * (255 - src[4])
             outa255 == src[4] * 255 + blend
             coef1   == (src[4] * 255 * 255 * 128) \div outa255
             coef2   == 255 * 128 - coef1
             ch(i)   == ShiftForDiv255(src[i] * coef1 + dst[i] * coef2
                                       + 128 * 128) \div 128
         IN  <<ch(1), ch(2), ch(3), ShiftForDiv255(outa255 + 128)>>

\* Image.alpha_composite(im1, im2): im2 over im1, both RGBA of one size
alpha_composite(im1, im2) ==
    MkImage("RGBA", im1.width, im1.height,
            [c \in DOMAIN im1.px |-> CompositePixel(im1.px[c], im2.px[c])],
            <<>>, NoIndex)

(***************************************************************************)
(* composite_over_bg(img, bg_hex): the flattened image, or the exception   *)
(* int(.., 16) raises on a colour that is not hexadecimal.                 *)
(***************************************************************************)
\* img.mode in ("RGBA", "LA") or (img.mode == "P" and "transparency" in img.info)
HasAlpha(im) ==
    \/ im.mode \in {"RGBA", "LA"}
    \/ (im.mode = "P" /\ im.transparency # NoIndex)

\* whether int(s, 16) accepts the two characters s (surrounding blanks are
\* allowed by int)
IsHexPair(s) ==
    \/ IsHexDigit(s[1]) /\ IsHexDigit(s[2])
    \/ s[1] \in Whitespace /\ IsHexDigit(s[2])
    \/ IsHexDigit(s[1]) /\ s[2] \in Whitespace

\* int(s, 16) of two characters
HexPairVal(s) ==
    IF IsHexDigit(s[1]) /\ IsHexDigit(s[2])
    THEN 16 * HexVal(s[1]) + HexVal(s[2])
    ELSE IF IsHexDigit(s[2]) THEN HexVal(s[2]) ELSE HexVal(s[1])

\* the start indices (1, 3, 5) of the three channels, counted from 0
ChannelStarts == <<1, 3, 5>>

\* bg_hex[i:i+2]
HexSlice(h, i) == SubSeq(h, i + 1, Min(i + 2, Len(h)))

\* tuple(int(bg_hex[i:i+2], 16) for i in (1,3,5))
BgRGB(h) == [k \in 1..3 |-> HexPairVal(HexSlice(h, ChannelStarts[k]))]

BgParses(h) ==
    \A k \in 1..3 : LET t == HexSlice(h, ChannelStarts[k])
                    IN  Len(t) = 2 /\ IsHexPair(t)

\* the two images swapped: the background over the image
Blend_Swapped(bg, im) == alpha_composite(ConvertRGBA(im), bg)

\* Image.alpha_composite(bg, img.convert("RGBA"))
Blend(bg, im) == alpha_composite(bg, ConvertRGBA(im))

composite_over_bg(im, h) ==
    IF HasAlpha(im)
    THEN IF ~BgParses(h) THEN ValueError
         ELSE ConvertRGB(Blend(NewRGBA(im.width, im.height,
                                       BgRGB(h) \o <<255>>), im))
    ELSE ConvertRGB(im)

(***************************************************************************)
(* The inputs explored.                                                    *)
(***************************************************************************)
Unset == 0 - 1

Modes == {"RGB", "RGBA", "LA", "L", "P"}

\* three pixels of each mode: an opaque one, a transparent one, a blended one
SamplePixels(m) ==
    CASE m = "RGB"  -> << <<255, 0, 0>>, <<0, 0, 0>>, <<18, 171, 5>> >>
      [] m = "RGBA" -> << <<255, 0, 0, 255>>, <<9, 128, 255, 0>>,
                          <<10, 200, 30, 128>> >>
      [] m = "LA"   -> << <<255, 255>>, <<7, 0>>, <<100, 128>> >>
      [] m = "L"    -> << <<255>>, <<0>>, <<77>> >>
      [] m = "P"    -> << <<0>>, <<1>>, <<2>> >>

TestPalette == << <<255, 0, 0>>, <<0, 0, 0>>, <<18, 52, 86>> >>

Seeds == {0, 1, 2}

\* the w x h image of mode m whose pixel at (x, y) is sample x + 2y + seed
TestImage(m, w, h, seed, tr) ==
    MkImage(m, w, h,
            [c \in Coords(w, h) |->
                SamplePixels(m)[((c[1] + 2 * c[2] + seed) % 3) + 1]],
            IF m = "P" THEN TestPalette ELSE <<>>, tr)

\* the images Image.open may return in a full run
InputImages ==
    {TestImage(m, w, h, 0, IF m = "P" THEN 1 ELSE NoIndex) :
        m \in {"RGB", "RGBA", "P"}, w \in 1..MaxDim, h \in 1..MaxDim}

GoodPath == "in.png"
MissingPath == "missing.png"

\* --scale: integers, so that float(scale) is exact
ScalePercents == {-50, 0, 50, 100, 150}

\* --aspect as <<numerator, denominator>>, the denominator a power of two, so
\* that the float is exactly this fraction
Aspects == {<<0, 1>>, <<1, 2>>, <<3, 4>>, <<1, 1>>, <<2, 1>>, <<-1, 2>>}

\* --glyph: the block, the empty string, a newline, two characters
Glyphs == {<<"u2588">>, <<>>, <<"\n">>, <<"a", "b">>}

\* --bg
BgArgs == {<<"#", "0", "0", "0">>, <<" ", "F", "F", "8", "0", "0", "0">>,
           <<"N", "o", "n", "e">>, <<"1", "2">>, <<"#", "z", "z", "z">>}

\* what the output path holds before the run
OldText == <<"o", "l", "d", "\n">>

(***************************************************************************)
(* image_to_color_text, step by step.                                      *)
(***************************************************************************)
NoneWords == {<<"n", "o", "n", "e">>,
              <<"t", "r", "a", "n", "s", "p", "a", "r", "e", "n", "t">>}

\* bg = None if args.bg.lower() in ("none", "transparent") else args.bg
ParseBg(b) == IF Lower(b) \in NoneWords THEN None ELSE b

\* a check that lets zero through
ScaleInvalid_Strict(p) == p < 0

\* if scale_percent <= 0: raise ValueError
ScaleInvalid(p) == p <= 0

\* max(1, int(orig * scale))
ScaledSize(orig, sc) == Max(1, FloatToInt(FloatMulInt(orig, sc)))

\* img.resize((w, h), resample=Image.LANCZOS): an RGB image of the asked size;
\* resampling to the same size copies the image, otherwise the pixels are
\* whatever the filter computes
Resize(im, w, h) ==
    IF w = im.width /\ h = im.height THEN {im}
    ELSE {TestImage("RGB", w, h, s, NoIndex) : s \in {0, 1}}

\* new_h * aspect_ratio
TimesAspect(h, a) == FloatDiv(h * a[1], a[2])

\* one row too many: int(...) + 1
RenderedH_OffByOne(h, a) == Max(1, FloatToInt(TimesAspect(h, a)) + 1)

\* the row count without its floor of one row
RenderedH_NoFloor(h, a) == FloatToInt(TimesAspect(h, a))

\* max(1, int(new_h * aspect_ratio))
RenderedH(h, a) == Max(1, FloatToInt(TimesAspect(h, a)))

\* int(round(y / aspect_ratio)), aspect_ratio # 0
RoundedRow(row, a) == FloatRound(FloatDiv(row * a[2], a[1]))

\* the clamp without its upper end
Clamp_NoUpper(raw, h) == Max(0, raw)

\* min(new_h - 1, max(0, ...))
Clamp(raw, h) == Min(h - 1, Max(0, raw))

RECURSIVE HexOf(_)
\* format(v, "x") of v > 0
HexOf(v) == IF v = 0 THEN <<>> ELSE HexOf(v \div 16) \o <<HexDigits[(v % 16) + 1]>>

\* f"{v:x}": no padding
Hex02_NoPad(v) == IF v = 0 THEN <<"0">> ELSE HexOf(v)

\* f"{v:02x}"
Hex02(v) ==
    LET d == IF v = 0 THEN <<"0">> ELSE HexOf(v)
    IN  IF Len(d) < 2 THEN <<"0">> \o d ELSE d

FontOpen == <<"<", "f", "o", "n", "t", " ", "c", "o", "l", "o", "r", "=",
              "\"", "#">>
FontClose == <<"<", "/", "f", "o", "n", "t", ">">>

\* f'<font color="#{r:02x}{g:02x}{b:02x}">{ch}</font>'
RichCell(rgb, ch) ==
    FontOpen \o Hex02(rgb[1]) \o Hex02(rgb[2]) \o Hex02(rgb[3])
        \o <<"\"", ">">> \o ch \o FontClose

\* the cell appended for one pixel
Cell(rgb, ch, rich) == IF rich THEN RichCell(rgb, ch) ELSE ch

\* the join without the newline added after it
FinalText_NoNewline(ls) == Join(<<"\n">>, ls)

\* "\n".join(lines) + "\n"
FinalText(ls) == Join(<<"\n">>, ls) \o <<"\n">>

Raise(e) == exc' = e /\ pc' = "raised"

\* main, line 127
Main ==
    /\ pc = "main"
    /\ background' = ParseBg(bg_arg)
    /\ pc' = "open"
    /\ UNCHANGED <<hexVars, compVars, argVars, outVars, img, bg_hex, orig_w,
                   orig_h, scale, new_w, new_h, color_img, rendered_h, lines,
                   row_parts, y, x, raw_y, mapped_y, final_text>>

\* line 49, the path names an image
Open ==
    /\ pc = "open"
    /\ image_path = GoodPath
    /\ \E im \in InputImages : img' = im
    /\ pc' = "bg"
    /\ UNCHANGED <<hexVars, compVars, argVars, outVars, background, bg_hex,
                   orig_w, orig_h, scale, new_w, new_h, color_img, rendered_h,
                   lines, row_parts, y, x, raw_y, mapped_y, final_text>>

\* line 49, the path names nothing
OpenFails ==
    /\ pc = "open"
    /\ image_path = MissingPath
    /\ Raise("FileNotFoundError")
    /\ UNCHANGED <<hexVars, compVars, argVars, locVars, file, resizes, stderr,
                   exit_status>>

\* lines 52-56
Background ==
    /\ pc = "bg"
    /\ IF background # None
       THEN LET h == ensure_hex_color(background)
            IN  IF h = ValueError
                THEN Raise("ValueError") /\ UNCHANGED <<bg_hex, img>>
                ELSE /\ bg_hex' = h
                     /\ IF HasAlpha(img) /\ ~BgParses(h)
                        THEN Raise("ValueError") /\ UNCHANGED img
                        ELSE /\ img' = composite_over_bg(img, h)
                             /\ pc' = "scale"
                             /\ UNCHANGED exc
       ELSE /\ img' = ConvertRGB(img)
            /\ pc' = "scale"
            /\ UNCHANGED <<bg_hex, exc>>
    /\ UNCHANGED <<hexVars, compVars, argVars, background, orig_w, orig_h,
                   scale, new_w, new_h, color_img, rendered_h, lines,
                   row_parts, y, x, raw_y, mapped_y, final_text, file,
                   resizes, stderr, exit_status>>

\* lines 58-61
ScaleCheck ==
    /\ pc = "scale"
    /\ orig_w' = img.width
    /\ orig_h' = img.height
    /\ IF ScaleInvalid(scale_percent)
       THEN Raise("ValueError") /\ UNCHANGED scale
       ELSE /\ scale' = FloatDiv(scale_percent, 100)
            /\ pc' = "size"
            /\ UNCHANGED exc
    /\ UNCHANGED <<hexVars, compVars, argVars, background, img, bg_hex, new_w,
                   new_h, color_img, rendered_h, lines, row_parts, y, x, raw_y,
                   mapped_y, final_text, file, resizes, stderr, exit_status>>

\* lines 64-65
Size ==
    /\ pc = "size"
    /\ new_w' = ScaledSize(orig_w, scale)
    /\ new_h' = ScaledSize(orig_h, scale)
    /\ pc' = "resize"
    /\ UNCHANGED <<hexVars, compVars, argVars, outVars, background, img,
                   bg_hex, orig_w, orig_h, scale, color_img, rendered_h, lines,
                   row_parts, y, x, raw_y, mapped_y, final_text>>

\* line 71
ResizeColor ==
    /\ pc = "resize"
    /\ \E r \in Resize(img, new_w, new_h) : color_img' = r
    /\ resizes' = resizes + 1
    /\ pc' = "rows"
    /\ UNCHANGED <<hexVars, compVars, argVars, background, img, bg_hex,
                   orig_w, orig_h, scale, new_w, new_h, rendered_h, lines,
                   row_parts, y, x, raw_y, mapped_y, final_text, file, exc,
                   stderr, exit_status>>

\* lines 74-81: the row count, the grayscale image (resized, never read) and
\* the empty list of lines
Rows ==
    /\ pc = "rows"
    /\ rendered_h' = RenderedH(new_h, aspect_ratio)
    /\ resizes' = resizes + 1
    /\ lines' = <<>>
    /\ pc' = "row"
    /\ UNCHANGED <<hexVars, compVars, argVars, background, img, bg_hex,
                   orig_w, orig_h, scale, new_w, new_h, color_img, row_parts,
                   y, x, raw_y, mapped_y, final_text, file, exc, stderr,
                   exit_status>>

\* lines 82-85: the next y of range(rendered_h), if any, and its source row
Row ==
    /\ pc = "row"
    /\ IF y + 1 < rendered_h
       THEN /\ y' = y + 1
            /\ row_parts' = <<>>
            /\ IF aspect_ratio[1] = 0
               THEN Raise("ZeroDivisionError")
                    /\ UNCHANGED <<raw_y, mapped_y, x>>
               ELSE /\ raw_y' = RoundedRow(y + 1, aspect_ratio)
                    /\ mapped_y' = Clamp(RoundedRow(y + 1, aspect_ratio), new_h)
                    /\ x' = Unset
                    /\ pc' = "sample"
                    /\ UNCHANGED exc
       ELSE /\ pc' = "join"
            /\ UNCHANGED <<y, row_parts, raw_y, mapped_y, x, exc>>
    /\ UNCHANGED <<hexVars, compVars, argVars, background, img, bg_hex,
                   orig_w, orig_h, scale, new_w, new_h, color_img, rendered_h,
                   lines, final_text, file, resizes, stderr, exit_status>>

\* lines 86-93: the next x of range(new_w) and its cell
Sample ==
    /\ pc = "sample"
    /\ x + 1 < new_w
    /\ x' = x + 1
    /\ IF <<x + 1, mapped_y>> \in DOMAIN color_img.px
       THEN /\ row_parts' = Append(row_parts,
                                   Cell(color_img.px[<<x + 1, mapped_y>>],
                                        glyph, rich_text))
            /\ UNCHANGED <<pc, exc>>
       ELSE Raise("IndexError") /\ UNCHANGED row_parts
    /\ UNCHANGED <<hexVars, compVars, argVars, background, img, bg_hex,
                   orig_w, orig_h, scale, new_w, new_h, color_img, rendered_h,
                   lines, y, raw_y, mapped_y, final_text, file, resizes,
                   stderr, exit_status>>

\* line 94: range(new_w) is exhausted
EndRow ==
    /\ pc = "sample"
    /\ ~(x + 1 < new_w)
    /\ lines' = Append(lines, Concat(row_parts))
    /\ pc' = "row"
    /\ UNCHANGED <<hexVars, compVars, argVars, outVars, background, img,
                   bg_hex, orig_w, orig_h, scale, new_w, new_h, color_img,
                   rendered_h, row_parts, y, x, raw_y, mapped_y, final_text>>

\* line 95
JoinLines ==
    /\ pc = "join"
    /\ final_text' = FinalText(lines)
    /\ pc' = "save"
    /\ UNCHANGED <<hexVars, compVars, argVars, outVars, background, img,
                   bg_hex, orig_w, orig_h, scale, new_w, new_h, color_img,
                   rendered_h, lines, row_parts, y, x, raw_y, mapped_y>>

\* lines 98-100, all succeeding
Save ==
    /\ pc = "save"
    /\ file' = final_text
    /\ pc' = "return"
    /\ UNCHANGED <<hexVars, compVars, argVars, locVars, resizes, exc, stderr,
                   exit_status>>

\* lines 98-99: os.makedirs or open fails, the file is left as it was
SaveOpenFails ==
    /\ pc = "save"
    /\ Raise("OSError")
    /\ UNCHANGED <<hexVars, compVars, argVars, locVars, file, resizes, stderr,
                   exit_status>>

\* line 100: open has truncated the file and the write fails
SaveWriteFails ==
    /\ pc = "save"
    /\ file' = <<>>
    /\ Raise("OSError")
    /\ UNCHANGED <<hexVars, compVars, argVars, locVars, resizes, stderr,
                   exit_status>>

\* line 113, and main returns: the process exits with status 0
Return ==
    /\ pc = "return"
    /\ exit_status' = 0
    /\ pc' = "exit"
    /\ UNCHANGED <<hexVars, compVars, argVars, locVars, file, resizes, exc,
                   stderr>>

\* the status sys.exit is given at line 141
ErrorStatus == 1

\* lines 139-141
Except ==
    /\ pc = "raised"
    /\ stderr' = <<"Error:", exc>>
    /\ exit_status' = ErrorStatus
    /\ pc' = "exit"
    /\ UNCHANGED <<hexVars, compVars, argVars, locVars, file, resizes, exc>>

IdleCalls ==
    /\ hex_in = <<>> /\ hex_out = <<>>
    /\ comp_img = NoValue /\ comp_bg = <<>> /\ comp_out = <<>>

FreshLocals ==
    /\ background = NoValue /\ img = NoValue /\ bg_hex = NoValue
    /\ orig_w = Unset /\ orig_h = Unset /\ scale = NoValue
    /\ new_w = Unset /\ new_h = Unset /\ color_img = NoValue
    /\ rendered_h = Unset /\ lines = NoValue /\ row_parts = NoValue
    /\ y = Unset /\ x = Unset /\ raw_y = Unset /\ mapped_y = Unset
    /\ final_text = NoValue

FreshWorld ==
    /\ file = OldText /\ resizes = 0 /\ exc = "none" /\ stderr = <<>>
    /\ exit_status = Unset

Init ==
    /\ IdleCalls
    /\ image_path \in {GoodPath, MissingPath}
    /\ scale_percent \in ScalePercents
    /\ aspect_ratio \in Aspects
    /\ glyph \in Glyphs
    /\ rich_text \in BOOLEAN
    /\ bg_arg \in BgArgs
    /\ pc = "main"
    /\ FreshLocals
    /\ FreshWorld

Next ==
    \/ Main \/ Open \/ OpenFails \/ Background \/ ScaleCheck \/ Size
    \/ ResizeColor \/ Rows \/ Row \/ Sample \/ EndRow \/ JoinLines
    \/ Save \/ SaveOpenFails \/ SaveWriteFails \/ Return \/ Except

Spec == Init /\ [][Next]_vars

(***************************************************************************)
(* ensure_hex_color on its own, over every short string of an alphabet     *)
(* with the prefix, a blank, hexadecimal digits of both cases and a        *)
(* letter that is no digit.                                                *)
(***************************************************************************)
HexAlphabet == {"#", " ", "a", "F", "9", "z"}

\* the strings of n characters
HexInputs(n) == [1..n -> HexAlphabet]

IdleRun ==
    /\ image_path = GoodPath /\ scale_percent = 100 /\ aspect_ratio = <<1, 1>>
    /\ glyph = <<"u2588">> /\ rich_text = TRUE /\ bg_arg = <<"#", "0", "0", "0">>
    /\ pc = "idle"
    /\ FreshLocals
    /\ FreshWorld

CallEnsureHex ==
    /\ hex_out = <<>>
    /\ pc = "idle"
    /\ hex_out' = <<ensure_hex_color(hex_in)>>
    /\ UNCHANGED <<hex_in, compVars, runVars>>

InitHex ==
    /\ \E n \in 0..MaxHexLen : hex_in \in HexInputs(n)
    /\ hex_out = <<>>
    /\ comp_img = NoValue /\ comp_bg = <<>> /\ comp_out = <<>>
    /\ IdleRun

SpecHex == InitHex /\ [][CallEnsureHex]_vars

(***************************************************************************)
(* composite_over_bg on its own, over images of every mode.                *)
(***************************************************************************)
CompImages ==
    {TestImage(m, w, h, s, tr) :
        m \in Modes, w \in 1..MaxDim, h \in 1..MaxDim, s \in Seeds,
        tr \in {NoIndex, 1}}

Black == <<"#", "0", "0", "0", "0", "0", "0">>

\* backgrounds as ensure_hex_color returns them; the last is no colour
BgColors ==
    {Black, <<"#", "f", "f", "f", "f", "f", "f">>,
     <<"#", "1", "2", "a", "b", "8", "0">>,
     <<"#", "z", "z", "z", "z", "z", "z">>}

CallComposite ==
    /\ comp_out = <<>>
    /\ pc = "idle"
    /\ comp_out' =
          IF HasAlpha(comp_img) /\ ~BgParses(comp_bg)
          THEN <<[raised |-> "ValueError"]>>
          ELSE <<composite_over_bg(comp_img, comp_bg)>>
    /\ UNCHANGED <<comp_img, comp_bg, hexVars, runVars>>

InitComp ==
    /\ comp_img \in CompImages
    /\ comp_bg \in BgColors
    /\ comp_out = <<>>
    /\ hex_in = <<>> /\ hex_out = <<>>
    /\ IdleRun

SpecComp == InitComp /\ [][CallComposite]_vars

(***************************************************************************)
(* The scaler alone (lines 58-79), entered with an opaque image of any     *)
(* width up to MaxOrig and any whole scale percentage up to MaxPercent.    *)
(***************************************************************************)
InitScale ==
    /\ IdleCalls
    /\ image_path = GoodPath
    /\ scale_percent \in 0..MaxPercent
    /\ aspect_ratio \in {<<1, 2>>, <<1, 1>>}
    /\ glyph = <<"u2588">> /\ rich_text = TRUE
    /\ bg_arg = <<"#", "0", "0", "0">>
    /\ pc = "scale"
    /\ background = <<"#", "0", "0", "0">>
    /\ bg_hex = Black
    /\ \E w \in 1..MaxOrig, h \in 1..MaxDim :
          img = TestImage("RGB", w, h, 0, NoIndex)
    /\ orig_w = Unset /\ orig_h = Unset /\ scale = NoValue
    /\ new_w = Unset /\ new_h = Unset /\ color_img = NoValue
    /\ rendered_h = Unset /\ lines = NoValue /\ row_parts = NoValue
    /\ y = Unset /\ x = Unset /\ raw_y = Unset /\ mapped_y = Unset
    /\ final_text = NoValue
    /\ FreshWorld

NextScale == ScaleCheck \/ Size \/ ResizeColor \/ Rows \/ Except

SpecScale == InitScale /\ [][NextScale]_vars

(***************************************************************************)
(* The properties checked.                                                 *)
(***************************************************************************)
LowerHexDigits == {HexDigits[i] : i \in 1..16}

\* the argument of ensure_hex_color less one optional leading "#"
ArgBody == IF hex_in # <<>> /\ Head(hex_in) = "#" THEN Tail(hex_in) ELSE hex_in

\* a string less the blanks around it and then one optional leading "#"
StrippedBodyOf(s) ==
    LET t == Strip(s)
    IN  IF t # <<>> /\ Head(t) = "#" THEN Tail(t) ELSE t

StrippedBody == StrippedBodyOf(hex_in)

AllHex(s) == \A i \in 1..Len(s) : IsHexDigit(s[i])

\* C6: for an argument that, less one optional leading "#", is 3 or 6
\* hexadecimal digits of either case, ensure_hex_color returns 7 characters:
\* "#" and 6 lowercase hexadecimal digits; 3 digits a, b, c give aabbcc and 6
\* digits are kept in order, lowercased.
C6_HexNormalised ==
    (hex_out # <<>> /\ Len(ArgBody) \in {3, 6} /\ AllHex(ArgBody)) =>
        LET out == hex_out[1]
        IN  /\ Len(out) = 7
            /\ out[1] = "#"
            /\ \A i \in 2..7 : out[i] \in LowerHexDigits
            /\ Len(ArgBody) = 3 =>
                  \A k \in 1..3 : /\ out[2 * k] = LowerChar(ArgBody[k])
                                  /\ out[2 * k + 1] = LowerChar(ArgBody[k])
            /\ Len(ArgBody) = 6 =>
                  \A k \in 1..6 : out[k + 1] = LowerChar(ArgBody[k])

\* "#aF9" has been normalised
C6_Witness ==
    /\ hex_in = <<"#", "a", "F", "9">>
    /\ hex_out = << <<"#", "a", "a", "f", "f", "9", "9">> >>

\* C7 as stated: an argument whose length, less one optional leading "#", is
\* neither 3 nor 6 makes ensure_hex_color raise ValueError.
C7_Original ==
    (hex_out # <<>> /\ Len(ArgBody) \notin {3, 6}) => hex_out[1] = ValueError

\* C7 as amended: an argument whose length, once the blanks around it and
\* then one optional leading "#" are removed, is neither 3 nor 6 makes
\* ensure_hex_color raise ValueError.
C7_BadLengthRaises ==
    (hex_out # <<>> /\ Len(StrippedBody) \notin {3, 6}) =>
        hex_out[1] = ValueError

\* " #aF9 " minus its last digit: two digits behind blanks and the prefix
C7_Witness ==
    /\ hex_in = <<" ", "#", "a", "F", " ">>
    /\ hex_out = <<ValueError>>

\* the pixel of comp_img at c, as RGBA
SourceRGBA(c) == PixelRGBA(comp_img, comp_img.px[c])

IsColor(h) == Len(h) = 7 /\ h[1] = "#" /\ AllHex(Tail(h))

\* C9: composite_over_bg of an image with alpha (RGBA, LA, or P with a
\* transparency marker) over a background colour gives an RGB image of the
\* same size in which a fully transparent pixel over #000000 is (0,0,0) and
\* an opaque (255,0,0) pixel is (255,0,0) over every background.
C9_Composite ==
    (/\ comp_out # <<>>
     /\ IsColor(comp_bg)
     /\ \/ comp_img.mode \in {"RGBA", "LA"}
        \/ (comp_img.mode = "P" /\ comp_img.transparency # NoIndex)) =>
        LET out == comp_out[1]
        IN  /\ DOMAIN out = DOMAIN comp_img
            /\ out.mode = "RGB"
            /\ out.width = comp_img.width /\ out.height = comp_img.height
            /\ DOMAIN out.px = Coords(comp_img.width, comp_img.height)
            /\ \A c \in DOMAIN out.px :
                  /\ Len(out.px[c]) = 3
                  /\ (SourceRGBA(c)[4] = 0 /\ comp_bg = Black) =>
                        out.px[c] = <<0, 0, 0>>
                  /\ SourceRGBA(c) = <<255, 0, 0, 255>> =>
                        out.px[c] = <<255, 0, 0>>

\* an RGBA image with an opaque red and a transparent pixel has been
\* composited over black
C9_Witness ==
    /\ comp_out # <<>>
    /\ comp_img.mode = "RGBA"
    /\ comp_bg = Black
    /\ \E c \in DOMAIN comp_img.px : comp_img.px[c] = <<255, 0, 0, 255>>
    /\ \E c \in DOMAIN comp_img.px :
          comp_img.px[c][4] = 0 /\ comp_out[1].px[c] = <<0, 0, 0>>

\* C5 as stated: once computed, new_w = max(1, floor(orig_w * scale_percent
\* / 100)), new_h = max(1, floor(orig_h * scale_percent / 100)) and
\* rendered_h = max(1, floor(new_h * aspect_ratio)), all at least 1.
C5_GridDimensions ==
    /\ pc \in {"resize", "rows", "row"} =>
          /\ new_w = Max(1, (orig_w * scale_percent) \div 100)
          /\ new_h = Max(1, (orig_h * scale_percent) \div 100)
          /\ new_w >= 1 /\ new_h >= 1
    /\ pc = "row" =>
          /\ rendered_h = Max(1, (new_h * aspect_ratio[1]) \div aspect_ratio[2])
          /\ rendered_h >= 1

Fraction == aspect_ratio[1] > 0 /\ aspect_ratio[1] < aspect_ratio[2]

\* the source row of the last output row has been computed
LastRowMapped == pc = "sample" /\ y = rendered_h - 1

\* C1 as stated: with 0 < aspect_ratio < 1 the last output row
\* y = rendered_h - 1 is mapped to the last source row new_h - 1.
C1_Original == (LastRowMapped /\ Fraction) => mapped_y = new_h - 1

\* C1 as amended: with 0 < aspect_ratio < 1 the last output row is mapped to
\* round(y / aspect_ratio) itself, which is never past the last source row
\* new_h - 1 (the clamp changes nothing) and lies fewer than
\* 2 / aspect_ratio rows before it.
C1_LastRowInBounds ==
    (LastRowMapped /\ Fraction) =>
        /\ mapped_y = raw_y
        /\ 0 <= raw_y /\ raw_y <= new_h - 1
        /\ (new_h - 1 - mapped_y) * aspect_ratio[1] < 2 * aspect_ratio[2]

\* a second output row, the last, mapped short of the last source row
C1_Witness ==
    LastRowMapped /\ Fraction /\ y >= 1 /\ mapped_y >= 1 /\ mapped_y < new_h - 1

BadBackground ==
    background # None /\ Len(StrippedBodyOf(background)) \notin {3, 6}

\* C3: a run with scale_percent <= 0 or with a background whose stripped
\* length is neither 3 nor 6 never resizes and never touches the output
\* file, and ends in a ValueError once the image is open; a ValueError is
\* never preceded by a resize or a write.
C3_ValidationFirst ==
    /\ (pc # "main" /\ (scale_percent <= 0 \/ BadBackground)) =>
          /\ resizes = 0 /\ file = OldText
          /\ (pc = "exit" /\ image_path = GoodPath) =>
                exc = "ValueError" /\ exit_status = 1
    /\ exc = "ValueError" => (resizes = 0 /\ file = OldText)

\* a run with a valid background has ended on scale_percent <= 0
C3_Witness ==
    /\ pc = "exit" /\ exc = "ValueError" /\ scale_percent <= 0
    /\ ~BadBackground /\ orig_w >= 1

NewlineCount(t) == Cardinality({i \in 1..Len(t) : t[i] = "\n"})

EndsWithOneNewline(t) ==
    /\ Len(t) >= 1 /\ t[Len(t)] = "\n"
    /\ Len(t) >= 2 => t[Len(t) - 1] # "\n"

Succeeded == pc = "exit" /\ exit_status = 0

\* C4 as stated: after a successful run, whatever the glyph and the mode,
\* the file ends with exactly one newline and holds rendered_h lines.
C4_Original ==
    Succeeded => (EndsWithOneNewline(file) /\ NewlineCount(file) = rendered_h)

\* C4 as amended: after a successful run whose glyph holds no newline and,
\* without rich text, is not empty, the file ends with exactly one newline
\* and holds rendered_h lines.
C4_TrailingNewline ==
    (/\ Succeeded
     /\ \A i \in 1..Len(glyph) : glyph[i] # "\n"
     /\ rich_text \/ glyph # <<>>) =>
        (EndsWithOneNewline(file) /\ NewlineCount(file) = rendered_h)

\* a successful run of several rows of bare two-character glyphs
C4_Witness ==
    Succeeded /\ rendered_h >= 2 /\ ~rich_text /\ glyph = <<"a", "b">>

\* two lowercase hexadecimal digits, zero-padded
TwoHexDigits(v) == <<HexDigits[(v \div 16) + 1], HexDigits[(v % 16) + 1]>>

\* the cell the claim expects for one pixel
ExpectedCell(rgb) ==
    IF rich_text
    THEN <<"<", "f", "o", "n", "t", " ", "c", "o", "l", "o", "r", "=", "\"",
           "#">>
         \o TwoHexDigits(rgb[1]) \o TwoHexDigits(rgb[2])
         \o TwoHexDigits(rgb[3])
         \o <<"\"", ">">> \o glyph \o <<"<", "/", "f", "o", "n", "t", ">">>
    ELSE glyph

\* C8: the line appended for output row y is the concatenation, for
\* x = 0 .. new_w - 1 in order, of new_w cells: with rich text
\* <font color="#rrggbb"> + glyph + </font> for the pixel at (x, mapped_y),
\* otherwise the bare glyph; and rendered_h lines are appended in all.
C8_LineFormat ==
    /\ (pc = "row" /\ y >= 0) =>
          /\ Len(lines) = y + 1
          /\ lines[y + 1] =
                Concat([i \in 1..new_w |->
                           ExpectedCell(color_img.px[<<i - 1, mapped_y>>])])
    /\ pc \in {"join", "save", "return"} => Len(lines) = rendered_h

\* the last of several rows of rich-text cells, two or more wide, is done
C8_Witness ==
    /\ pc = "row" /\ y = rendered_h - 1 /\ y >= 1 /\ rich_text /\ new_w >= 2
    /\ glyph = <<"u2588">>

\* the background is None or a colour
ValidBackground ==
    background = None \/ IsColor(ensure_hex_color(background))

\* C10: with aspect_ratio = 0 the output file is never touched and the
\* renderer never samples; if the image, the background and the scale are
\* valid the run computes rendered_h = 1, resizes, fails with
\* ZeroDivisionError on the first row, and main prints the error to stderr
\* and exits with status 1.
C10_ZeroAspect ==
    aspect_ratio[1] = 0 =>
        /\ file = OldText
        /\ pc \notin {"sample", "join", "save", "return"}
        /\ (/\ pc = "exit" /\ image_path = GoodPath /\ scale_percent > 0
            /\ ValidBackground) =>
              /\ exc = "ZeroDivisionError"
              /\ rendered_h = 1 /\ resizes >= 1 /\ y = 0
              /\ stderr = <<"Error:", "ZeroDivisionError">>
              /\ exit_status = 1

\* such a run has ended
C10_Witness ==
    /\ aspect_ratio[1] = 0 /\ pc = "exit" /\ exc = "ZeroDivisionError"
    /\ resizes >= 1 /\ exit_status = 1 /\ ValidBackground

====
